---- MODULE Spec2Model ----
(***************************************************************************)
(* miglint: a linter for golang-migrate style migration file names.        *)
(*                                                                         *)
(* The model follows cmd/miglint/main.go (main, parseFlags) and the lint   *)
(* package (Lint and its helpers).  File names, paths and extension        *)
(* filters are sequences of one-character strings, so the three regular    *)
(* expressions of the lint package are modelled character by character.    *)
(* A violation message is the tuple of its format (first element) and of   *)
(* the values fmt.Sprintf puts into it.                                    *)
(***************************************************************************)
EXTENDS Integers, Sequences, FiniteSets, TLC

VARIABLES
    args,         \* the command line: values of the flags after flag.Parse
    fs,           \* the file system: what cfg.Path is, and its entries
    pc,           \* position of the process
    cfg,          \* lint.Config handed to Lint
    entries,      \* result of os.ReadDir
    idx,          \* number of entries the first loop has consumed
    lintErrors,   \* Lint's lintErrors slice
    versions,     \* Lint's map version -> VersionGroup
    versionKeys,  \* Lint's versionKeys slice
    vpos,         \* number of keys the second loop has consumed
    gpos,         \* loop variable i of the gap loop
    err,          \* Lint's fatal error ("nil" when none)
    exitCode,     \* status of the process (-1 while it runs)
    stdout,       \* lines printed on standard output
    stderr,       \* lines printed on standard error
    fsAccessed    \* TRUE once the process has touched the file system

vars == <<args, fs, pc, cfg, entries, idx, lintErrors, versions, versionKeys,
          vpos, gpos, err, exitCode, stdout, stderr, fsAccessed>>

(***************************************************************************)
(* Characters and strings                                                  *)
(***************************************************************************)
NL == "\n"

Digit == {"0", "1", "2", "3", "4", "5", "6", "7", "8", "9"}

\* Byte value of a character (ASCII), the order os.ReadDir sorts names by.
Code(c) ==
    CASE c = NL  -> 10
      [] c = " " -> 32
      [] c = "," -> 44
      [] c = "." -> 46
      [] c = "/" -> 47
      [] c = "0" -> 48
      [] c = "1" -> 49
      [] c = "2" -> 50
      [] c = "3" -> 51
      [] c = "4" -> 52
      [] c = "5" -> 53
      [] c = "6" -> 54
      [] c = "7" -> 55
      [] c = "8" -> 56
      [] c = "9" -> 57
      [] c = "_" -> 95
      [] c = "a" -> 97
      [] c = "b" -> 98
      [] c = "d" -> 100
      [] c = "g" -> 103
      [] c = "n" -> 110
      [] c = "o" -> 111
      [] c = "p" -> 112
      [] c = "s" -> 115
      [] c = "t" -> 116
      [] c = "u" -> 117
      [] c = "w" -> 119

\* s[from..] (1-based), the empty string when from is past the end.
Suffix(s, from) == SubSeq(s, from, Len(s))

\* Does s hold t at position p?
HasAt(s, p, t) ==
    /\ p >= 1
    /\ p + Len(t) - 1 <= Len(s)
    /\ SubSeq(s, p, p + Len(t) - 1) = t

\* strings.Contains(s, ".")
ContainsDot(s) == \E i \in 1..Len(s) : s[i] = "."

\* A string the regexp "." can match all of: it holds no newline.
NoNewline(s) == \A i \in 1..Len(s) : s[i] # NL

\* Byte-wise string order (the order of sort.Strings, used by os.ReadDir).
StrLess(a, b) ==
    \E i \in 1..(Len(b)) :
        /\ i <= Len(a) + 1
        /\ \A j \in 1..(i - 1) : a[j] = b[j]
        /\ \/ i = Len(a) + 1
           \/ Code(a[i]) < Code(b[i])

Max(S) == CHOOSE x \in S : \A y \in S : y <= x

(***************************************************************************)
(* The three regular expressions of the lint package.  Go's regexp is      *)
(* leftmost-first: a greedy ".+" takes the longest text the rest of the    *)
(* pattern still matches after, "." matches any character but a newline,   *)
(* and "^" and "$" (no multi-line flag) are the ends of the text.          *)
(***************************************************************************)

\* Length of the text "^[0-9]+" matches (0 when the name starts with no digit).
RECURSIVE DigitRun(_)
DigitRun(name) ==
    IF Len(name) > 0 /\ name[1] \in Digit THEN 1 + DigitRun(Tail(name)) ELSE 0

\* "^([0-9]+)_": the digits are followed by an underscore.
HasVersionPrefix(name) ==
    LET n == DigitRun(name) IN
    n >= 1 /\ n + 1 <= Len(name) /\ name[n + 1] = "_"

\* "\.(up|down)" at p: the length of the token matched there (0 when none).
DirectionLenAt(name, p) ==
    IF HasAt(name, p, <<".", "u", "p">>) THEN 3
    ELSE IF HasAt(name, p, <<".", "d", "o", "w", "n">>) THEN 5
    ELSE 0

\* Positions p of a "." opening a direction token such that "(.+)", group 2,
\* can match the text between the underscore and p: the text is not empty
\* and holds no newline.
DirectionStarts(name) ==
    IF ~HasVersionPrefix(name) THEN {}
    ELSE LET n == DigitRun(name) IN
         {p \in (n + 3)..Len(name) :
            /\ DirectionLenAt(name, p) > 0
            /\ NoNewline(SubSeq(name, n + 2, p - 1))}

\* The submatches when the direction token starts at p; ext is group 4.
Submatches(name, p, ext) ==
    LET n == DigitRun(name)
        d == DirectionLenAt(name, p)
    IN  << name,
           SubSeq(name, 1, n),
           SubSeq(name, n + 2, p - 1),
           SubSeq(name, p + 1, p + d - 1),
           ext >>

\* nil: FindStringSubmatch found no match.
Nil == <<>>

\* Go's matches[k] (k = 0 is the whole match).
Group(m, k) == m[k + 1]

\* The text after the direction token at p and the "." that follows it.
AfterDirection(name, p) == Suffix(name, p + DirectionLenAt(name, p) + 1)

\* "\.(.+)$" after the direction token at p.
ExtFollows(name, p) ==
    /\ HasAt(name, p + DirectionLenAt(name, p), <<".">>)
    /\ AfterDirection(name, p) # <<>>
    /\ NoNewline(AfterDirection(name, p))

\* Where the direction token starts in the matches of
\* migratePattern = ^([0-9]+)_(.+)\.(up|down)\.(.+)$
MigrateSplits(name) ==
    {p \in DirectionStarts(name) : ExtFollows(name, p)}

\* Mutant of Preferred: group 2 written non-greedy, "(.+?)".
Preferred_Shortest(splits) == CHOOSE p \in splits : \A q \in splits : p <= q

\* The match Go reports among them: group 2 is greedy, so it is the one
\* whose direction token starts last.
Preferred(splits) == Max(splits)

\* migratePattern.FindStringSubmatch(name)
migratePattern(name) ==
    LET S == MigrateSplits(name) IN
    IF S = {} THEN Nil
    ELSE Submatches(name, Preferred(S), AfterDirection(name, Preferred(S)))

\* migrationLikeRe.MatchString(name), for
\* migrationLikeRe = ^[0-9]+_.+\.(up|down)\..+   (not anchored at the end)
migrationLikeRe(name) ==
    \E p \in DirectionStarts(name) :
        /\ HasAt(name, p + DirectionLenAt(name, p), <<".">>)
        /\ AfterDirection(name, p) # <<>>
        /\ AfterDirection(name, p)[1] # NL

\* Does the name end with the direction token at p?
EndsWithDirection(name, p) == p + DirectionLenAt(name, p) - 1 = Len(name)

\* Where the direction token starts in the matches of
\* migrationPrefixRe = ^([0-9]+)_(.+)\.(up|down)(?:\.(.*))?$
PrefixSplits(name) ==
    {p \in DirectionStarts(name) :
        \/ EndsWithDirection(name, p)
        \/ /\ HasAt(name, p + DirectionLenAt(name, p), <<".">>)
           /\ NoNewline(AfterDirection(name, p))}

\* migrationPrefixRe.FindStringSubmatch(name); group 4 is "" when the
\* optional group took no part in the match.
migrationPrefixRe(name) ==
    LET S == PrefixSplits(name) IN
    IF S = {} THEN Nil
    ELSE Submatches(name, Preferred(S),
                    IF EndsWithDirection(name, Preferred(S)) THEN <<>>
                    ELSE AfterDirection(name, Preferred(S)))

(***************************************************************************)
(* Helpers of the lint package                                             *)
(***************************************************************************)

\* finalExtension: the text after the last ".", "" when there is no "." or
\* the name ends with it.
finalExtension(name) ==
    LET dots == {i \in 1..Len(name) : name[i] = "."} IN
    IF dots # {} /\ Max(dots) < Len(name)
    THEN Suffix(name, Max(dots) + 1)
    ELSE <<>>

\* extMatches(expected, finalExt, extPart)
extMatches(expected, finalExt, extPart) ==
    IF expected = <<>> THEN TRUE
    ELSE IF ContainsDot(expected) THEN extPart = expected
    ELSE finalExt = expected

\* humanExt
humanExt(s) == IF s = <<>> THEN <<"<none>">> ELSE s

\* formatExtMismatch: the message names the ext part alone when the filter
\* holds a ".", the final extension and the ext part otherwise.
formatExtMismatch(path, expected, finalExt, extPart) ==
    IF ContainsDot(expected)
    THEN <<"extension mismatch", path, <<"ext part">>, humanExt(extPart), expected>>
    ELSE <<"extension mismatch", path, humanExt(finalExt), humanExt(extPart), expected>>

\* strings.Join(paths, ", ")
RECURSIVE Join(_)
Join(paths) ==
    IF Len(paths) = 0 THEN <<>>
    ELSE IF Len(paths) = 1 THEN paths[1]
    ELSE paths[1] \o <<",", " ">> \o Join(Tail(paths))

\* joinPaths: the paths of the migrations, joined with ", ".
joinPaths(ms) == Join([i \in 1..Len(ms) |-> ms[i].Path])

\* filepath.Join(dir, name) for a clean dir and a plain file name.
PathJoin(dir, name) == dir \o <<"/">> \o name

\* Largest int64, in decimal.
MaxInt64 ==
    <<"9", "2", "2", "3", "3", "7", "2", "0", "3", "6", "8", "5", "4", "7", "7",
      "5", "8", "0", "7">>

\* The digits of s without its leading zeros.
RECURSIVE StripZeros(_)
StripZeros(s) ==
    IF Len(s) > 0 /\ s[1] = "0" THEN StripZeros(Tail(s)) ELSE s

\* Value of a string of decimal digits.
RECURSIVE DecimalValue(_)
DecimalValue(s) ==
    IF Len(s) = 0 THEN 0
    ELSE 10 * DecimalValue(SubSeq(s, 1, Len(s) - 1)) + (Code(s[Len(s)]) - 48)

\* strconv.ParseInt(s, 10, 64) on a non-empty string of digits: a range
\* error when the value exceeds the largest int64.
ParseInt(s) ==
    LET t == StripZeros(s) IN
    IF Len(t) > Len(MaxInt64) \/ (Len(t) = Len(MaxInt64) /\ StrLess(MaxInt64, t))
    THEN [ok |-> FALSE, val |-> 0]
    ELSE [ok |-> TRUE, val |-> DecimalValue(t)]

\* Mutant of SortAscending: the sort is forgotten.
SortAscending_Forgotten(keys) == keys

\* sort.Slice(versionKeys, less) with less = "<": the keys in ascending order.
\* The keys sorted with the comparison of line 247 turned round.
RECURSIVE SortAscending_Descending(_)
SortAscending_Descending(keys) ==
    IF Len(keys) = 0 THEN <<>>
    ELSE LET m    == CHOOSE i \in 1..Len(keys) : \A j \in 1..Len(keys) : keys[i] >= keys[j]
             rest == [i \in 1..(Len(keys) - 1) |-> IF i < m THEN keys[i] ELSE keys[i + 1]]
         IN  <<keys[m]>> \o SortAscending_Descending(rest)

RECURSIVE SortAscending(_)
SortAscending(keys) ==
    IF Len(keys) = 0 THEN <<>>
    ELSE LET m    == CHOOSE i \in 1..Len(keys) : \A j \in 1..Len(keys) : keys[i] <= keys[j]
             rest == [i \in 1..(Len(keys) - 1) |-> IF i < m THEN keys[i] ELSE keys[i + 1]]
         IN  <<keys[m]>> \o SortAscending(rest)

\* isCandidate(name, finalExt, extPart, migrationLike, hasDirection, cfg)
isCandidate(name, finalExt, extPart, migrationLike, hasDirection, c) ==
    IF ~c.StrictPattern THEN FALSE
    ELSE IF c.Ext # <<>>
         THEN IF extMatches(c.Ext, finalExt, extPart) THEN TRUE
              ELSE IF c.EnforceExt /\ (migrationLike \/ hasDirection) THEN TRUE
              ELSE FALSE
    ELSE IF Len(name) > 0 /\ name[1] \in Digit THEN TRUE
    ELSE IF migrationLike \/ hasDirection THEN TRUE
    ELSE FALSE

(***************************************************************************)
(* What the file system can hand to Lint                                   *)
(***************************************************************************)

\* Kinds of directory entry: a regular file, a directory, another special
\* file (device, socket, pipe), and a symbolic link to a regular file, to
\* something else, or to nothing (os.Stat fails).
EntryKinds == {"file", "dir", "special", "link_file", "link_other", "link_broken"}

\* Is the entry skipped without a message (lines 145-166)?
SkippedSilently(kind) == kind \in {"dir", "special", "link_other"}

\* Does os.Stat fail on the entry (line 157)?
StatFails(kind) == kind = "link_broken"

(***************************************************************************)
(* One iteration of Lint's loop over the directory entries (lines 144-244) *)
(***************************************************************************)

\* Lines 168-182: everything the iteration derives from the file name.
Classify(name) ==
    LET finalExt     == finalExtension(name)
        prefixMatch  == migrationPrefixRe(name)
        hasDirection == prefixMatch # Nil
        extPartOpt   == IF hasDirection THEN Group(prefixMatch, 4) ELSE <<>>
    IN  [ finalExt         |-> finalExt,
          hasDirection     |-> hasDirection,
          extPartOpt       |-> extPartOpt,
          finalExtForMatch |-> IF hasDirection /\ extPartOpt = <<>> THEN <<>> ELSE finalExt,
          isMigrationLike  |-> migrationLikeRe(name),
          matches          |-> migratePattern(name) ]

\* Line 184: does the extension-enforcement rule apply to the entry?
ExtRuleApplies(c, k) ==
    /\ c.Ext # <<>>
    /\ c.EnforceExt
    /\ ~extMatches(c.Ext, k.finalExtForMatch, k.extPartOpt)
    /\ (k.matches # Nil \/ k.isMigrationLike \/ k.hasDirection)

\* Mutant of ExtRuleReports: the test of strict-pattern is left out.
ExtRuleReports_Always(c, k) == TRUE

\* Line 186: the mismatch is reported unless the entry is not canonical and
\* strict-pattern is on.
ExtRuleReports(c, k) ==
    k.matches # Nil \/ ~c.StrictPattern

\* Lines 184-189: the extension mismatch messages of one entry.
ExtMismatchErrors(c, name, k) ==
    IF ExtRuleApplies(c, k) /\ ExtRuleReports(c, k)
    THEN <<formatExtMismatch(PathJoin(c.Path, name), c.Ext, k.finalExtForMatch, k.extPartOpt)>>
    ELSE <<>>

\* Lines 191-197: the unmatched-file messages of a non-canonical entry.
UnmatchedErrors(c, name, k) ==
    IF isCandidate(name, k.finalExtForMatch, k.extPartOpt, k.isMigrationLike, k.hasDirection, c)
    THEN <<<<"unmatched file", PathJoin(c.Path, name)>>>>
    ELSE <<>>

\* Mutant of FilteredOut: the entry is skipped only when enforcement is off.
FilteredOut_UnlessEnforced(c, k) ==
    LET extPart == Group(k.matches, 4) IN
    c.Ext # <<>> /\ ~extMatches(c.Ext, k.finalExtForMatch, extPart) /\ ~c.EnforceExt

\* Lines 199-204: a canonical entry the extension filter excludes.
FilteredOut(c, k) ==
    LET extPart == Group(k.matches, 4) IN
    c.Ext # <<>> /\ ~extMatches(c.Ext, k.finalExtForMatch, extPart)

\* Lines 216-219: the digits mismatch messages of one entry.
DigitsErrors(c, name, versionStr) ==
    IF c.Digits > 0 /\ Len(versionStr) # c.Digits
    THEN <<<<"digits mismatch", PathJoin(c.Path, name), Len(versionStr), c.Digits>>>>
    ELSE <<>>

\* Lines 228-237: the Migration of a canonical entry.
NewMigration(c, name, k, version) ==
    [ Path       |-> PathJoin(c.Path, name),
      FileName   |-> name,
      VersionStr |-> Group(k.matches, 1),
      Version    |-> version,
      NamePart   |-> Group(k.matches, 2),
      Direction  |-> Group(k.matches, 3),
      ExtPart    |-> Group(k.matches, 4),
      FinalExt   |-> k.finalExt ]

\* The zero VersionGroup.
EmptyGroup == [Up |-> <<>>, Down |-> <<>>]

\* Lines 221-243: the map after the migration joined its version's group.
AddToGroup(vs, m) ==
    LET group == IF m.Version \in DOMAIN vs THEN vs[m.Version] ELSE EmptyGroup
        grown == IF m.Direction = <<"u", "p">>
                 THEN [group EXCEPT !.Up = Append(@, m)]
                 ELSE [group EXCEPT !.Down = Append(@, m)]
    IN  [v \in DOMAIN vs \cup {m.Version} |-> IF v = m.Version THEN grown ELSE vs[v]]

\* Lines 222-226: the keys after the migration's version was seen.
AddKey(keys, vs, version) ==
    IF version \in DOMAIN vs THEN keys ELSE Append(keys, version)

(***************************************************************************)
(* The rules Lint evaluates per version and per pair of versions           *)
(***************************************************************************)

\* Mutant of DuplicateErrors: "> 1" written "> 2".
DuplicateErrors_OffByOne(version, group) ==
    (IF Len(group.Up) > 2
     THEN <<<<"duplicate up migrations", version, joinPaths(group.Up)>>>>
     ELSE <<>>)
    \o
    (IF Len(group.Down) > 2
     THEN <<<<"duplicate down migrations", version, joinPaths(group.Down)>>>>
     ELSE <<>>)

\* Lines 250-257: the duplicate rule.
DuplicateErrors(version, group) ==
    (IF Len(group.Up) > 1
     THEN <<<<"duplicate up migrations", version, joinPaths(group.Up)>>>>
     ELSE <<>>)
    \o
    (IF Len(group.Down) > 1
     THEN <<<<"duplicate down migrations", version, joinPaths(group.Down)>>>>
     ELSE <<>>)

\* Mutant of PairingErrors: the test of cfg.RequireDown is left out.
PairingErrors_Unconditional(c, version, group) ==
    (IF Len(group.Up) > 0 /\ Len(group.Down) = 0
     THEN <<<<"missing down migration", version>>>>
     ELSE <<>>)
    \o
    (IF Len(group.Down) > 0 /\ Len(group.Up) = 0
     THEN <<<<"missing up migration", version>>>>
     ELSE <<>>)

\* Lines 259-268: the pairing rule.
PairingErrors(c, version, group) ==
    IF c.RequireDown
    THEN (IF Len(group.Up) > 0 /\ Len(group.Down) = 0
          THEN <<<<"missing down migration", version>>>>
          ELSE <<>>)
         \o
         (IF Len(group.Down) > 0 /\ Len(group.Up) = 0
          THEN <<<<"missing up migration", version>>>>
          ELSE <<>>)
    ELSE <<>>

\* Mutant of NameMatchErrors: the first records are compared whenever both
\* directions are present, duplicates or not.
NameMatchErrors_AnyCount(c, version, group) ==
    IF c.StrictNameMatch /\ Len(group.Up) >= 1 /\ Len(group.Down) >= 1
    THEN LET up   == group.Up[1]
             down == group.Down[1]
         IN  IF up.NamePart # down.NamePart \/ up.ExtPart # down.ExtPart
             THEN <<<<"name/ext mismatch", version, up.FileName, down.FileName>>>>
             ELSE <<>>
    ELSE <<>>

\* Lines 270-277: the name/extension consistency rule.
NameMatchErrors(c, version, group) ==
    IF c.StrictNameMatch /\ Len(group.Up) = 1 /\ Len(group.Down) = 1
    THEN LET up   == group.Up[1]
             down == group.Down[1]
         IN  IF up.NamePart # down.NamePart \/ up.ExtPart # down.ExtPart
             THEN <<<<"name/ext mismatch", version, up.FileName, down.FileName>>>>
             ELSE <<>>
    ELSE <<>>

\* Lines 282-292: the gap rule for two neighbours of the sorted keys.
GapErrors(prev, cur) ==
    IF cur # prev + 1
    THEN LET missingStart == prev + 1
             missingEnd   == cur - 1
         IN  IF missingStart = missingEnd
             THEN <<<<"missing version", missingStart, prev, cur>>>>
             ELSE <<<<"missing versions", missingStart, missingEnd, prev, cur>>>>
    ELSE <<>>

\* Line 280: is the gap loop entered?
GapRuleOn(c, keys) == c.NoGaps /\ Len(keys) > 0

(***************************************************************************)
(* parseFlags (cmd/miglint/main.go)                                        *)
(***************************************************************************)

\* strings.TrimPrefix(s, ".")
TrimDot(s) == IF Len(s) > 0 /\ s[1] = "." THEN Tail(s) ELSE s

\* Mutant of ConfigOf: the leading dot of -ext is not stripped.
ConfigOf_DotKept(a) ==
    [ Path            |-> a.path,
      Ext             |-> a.ext,
      EnforceExt      |-> a.enforceExt,
      NoGaps          |-> a.noGaps,
      Digits          |-> a.digits,
      RequireDown     |-> a.requireDown,
      StrictNameMatch |-> a.strictNameMatch,
      StrictPattern   |-> a.strictPattern ]

\* Lines 56-58 and 38-45: the Config the flags give.
ConfigOf(a) ==
    [ Path            |-> a.path,
      Ext             |-> IF a.ext # <<>> THEN TrimDot(a.ext) ELSE a.ext,
      EnforceExt      |-> a.enforceExt,
      NoGaps          |-> a.noGaps,
      Digits          |-> a.digits,
      RequireDown     |-> a.requireDown,
      StrictNameMatch |-> a.strictNameMatch,
      StrictPattern   |-> a.strictPattern ]

\* Lines 60-74: the message of the first configuration error, "" when the
\* configuration is valid.
ConfigError(c) ==
    IF c.Path = <<>> THEN "error: -path is required"
    ELSE IF c.EnforceExt /\ c.Ext = <<>> THEN "error: -enforce-ext requires -ext"
    ELSE IF c.Digits < 0 THEN "error: -digits must be >= 0"
    ELSE ""

\* The zero Config.
ZeroConfig ==
    [ Path |-> <<>>, Ext |-> <<>>, EnforceExt |-> FALSE, NoGaps |-> FALSE,
      Digits |-> 0, RequireDown |-> FALSE, StrictNameMatch |-> FALSE,
      StrictPattern |-> FALSE ]

\* ensureDir and os.ReadDir (lines 131-138, 299-311): the fatal error the
\* state of cfg.Path gives, "nil" when it is a directory that can be read.
OpenError(state) ==
    CASE state = "missing"    -> "path does not exist"
      [] state = "stat_error" -> "failed to stat path"
      [] state = "not_a_dir"  -> "path is not a directory"
      [] state = "unreadable" -> "failed to read path"
      [] state = "dir"        -> "nil"

(***************************************************************************)
(* Actions                                                                 *)
(***************************************************************************)

\* main, lines 14-17, with parseFlags: a configuration error prints the
\* message and the usage and ends the process with status 2.
ParseFlags ==
    /\ pc = "start"
    /\ LET c == ConfigOf(args) IN
       IF ConfigError(c) # ""
       THEN /\ pc' = "exit"
            /\ exitCode' = 2
            /\ stderr' = stderr \o <<<<ConfigError(c)>>, <<"usage">>>>
            /\ UNCHANGED cfg
       ELSE /\ pc' = "lint"
            /\ cfg' = c
            /\ UNCHANGED <<exitCode, stderr>>
    /\ UNCHANGED <<args, fs, entries, idx, lintErrors, versions, versionKeys,
                   vpos, gpos, err, stdout, fsAccessed>>

\* Lint, lines 131-142: ensureDir, os.ReadDir and the empty working set.
OpenDir ==
    /\ pc = "lint"
    /\ fsAccessed' = TRUE
    /\ IF OpenError(fs.state) # "nil"
       THEN /\ err' = OpenError(fs.state)
            /\ pc' = "returned"
            /\ UNCHANGED entries
       ELSE /\ entries' = fs.listing
            /\ pc' = "scan"
            /\ UNCHANGED err
    /\ lintErrors' = <<>>
    /\ versions' = <<>>
    /\ versionKeys' = <<>>
    /\ idx' = 0
    /\ UNCHANGED <<args, fs, cfg, vpos, gpos, exitCode, stdout, stderr>>

\* Lint, lines 144-244: one iteration of the loop over the entries.
ScanEntry ==
    /\ pc = "scan"
    /\ idx < Len(entries)
    /\ idx' = idx + 1
    /\ LET entry    == entries[idx + 1]
           name     == entry.name
           fullPath == PathJoin(cfg.Path, name)
           k        == Classify(name)
           seen     == lintErrors \o ExtMismatchErrors(cfg, name, k)
       IN  IF SkippedSilently(entry.kind)
           THEN UNCHANGED <<lintErrors, versions, versionKeys>>
           ELSE IF StatFails(entry.kind)
           THEN /\ lintErrors' = Append(lintErrors, <<"failed to stat symlink", fullPath>>)
                /\ UNCHANGED <<versions, versionKeys>>
           ELSE IF k.matches = Nil
           THEN /\ lintErrors' = seen \o UnmatchedErrors(cfg, name, k)
                /\ UNCHANGED <<versions, versionKeys>>
           ELSE IF FilteredOut(cfg, k)
           THEN /\ lintErrors' = seen
                /\ UNCHANGED <<versions, versionKeys>>
           ELSE LET parsed == ParseInt(Group(k.matches, 1)) IN
                IF ~parsed.ok
                THEN /\ lintErrors' = Append(seen, <<"version parse error", fullPath>>)
                     /\ UNCHANGED <<versions, versionKeys>>
                ELSE /\ lintErrors' = seen \o DigitsErrors(cfg, name, Group(k.matches, 1))
                     /\ versionKeys' = AddKey(versionKeys, versions, parsed.val)
                     /\ versions' = AddToGroup(versions, NewMigration(cfg, name, k, parsed.val))
    /\ UNCHANGED <<args, fs, pc, cfg, entries, vpos, gpos, err, exitCode,
                   stdout, stderr, fsAccessed>>

\* Lint, line 247: the keys are sorted once the entries are consumed.
SortKeys ==
    /\ pc = "scan"
    /\ idx = Len(entries)
    /\ versionKeys' = SortAscending(versionKeys)
    /\ vpos' = 0
    /\ gpos' = 1
    /\ pc' = "check"
    /\ UNCHANGED <<args, fs, cfg, entries, idx, lintErrors, versions, err,
                   exitCode, stdout, stderr, fsAccessed>>

\* Lint, lines 248-278: one iteration of the loop over the sorted keys.
CheckVersion ==
    /\ pc = "check"
    /\ vpos < Len(versionKeys)
    /\ vpos' = vpos + 1
    /\ LET version == versionKeys[vpos + 1]
           group   == versions[version]
       IN  lintErrors' = lintErrors \o DuplicateErrors(version, group)
                                    \o PairingErrors(cfg, version, group)
                                    \o NameMatchErrors(cfg, version, group)
    /\ UNCHANGED <<args, fs, pc, cfg, entries, idx, versions, versionKeys, gpos,
                   err, exitCode, stdout, stderr, fsAccessed>>

\* Lint, lines 280-294: one iteration of the gap loop.
CheckGap ==
    /\ pc = "check"
    /\ vpos = Len(versionKeys)
    /\ GapRuleOn(cfg, versionKeys)
    /\ gpos < Len(versionKeys)
    /\ gpos' = gpos + 1
    /\ lintErrors' = lintErrors \o GapErrors(versionKeys[gpos], versionKeys[gpos + 1])
    /\ UNCHANGED <<args, fs, pc, cfg, entries, idx, versions, versionKeys, vpos,
                   err, exitCode, stdout, stderr, fsAccessed>>

\* Lint, line 296: return lintErrors, nil.
LintReturn ==
    /\ pc = "check"
    /\ vpos = Len(versionKeys)
    /\ ~(GapRuleOn(cfg, versionKeys) /\ gpos < Len(versionKeys))
    /\ pc' = "returned"
    /\ UNCHANGED <<args, fs, cfg, entries, idx, lintErrors, versions, versionKeys,
                   vpos, gpos, err, exitCode, stdout, stderr, fsAccessed>>

\* main, lines 19-33: the fatal error or the violations go to standard
\* error with status 1; otherwise the success message and status 0.
Report ==
    /\ pc = "returned"
    /\ pc' = "exit"
    /\ IF err # "nil"
       THEN /\ stderr' = Append(stderr, <<err>>)
            /\ exitCode' = 1
            /\ UNCHANGED stdout
       ELSE IF Len(lintErrors) > 0
       THEN /\ stderr' = stderr \o lintErrors
            /\ exitCode' = 1
            /\ UNCHANGED stdout
       ELSE /\ stdout' = Append(stdout, <<"migration lint passed">>)
            /\ exitCode' = 0
            /\ UNCHANGED stderr
    /\ UNCHANGED <<args, fs, cfg, entries, idx, lintErrors, versions, versionKeys,
                   vpos, gpos, err, fsAccessed>>

Next ==
    \/ ParseFlags
    \/ OpenDir
    \/ ScanEntry
    \/ SortKeys
    \/ CheckVersion
    \/ CheckGap
    \/ LintReturn
    \/ Report

(***************************************************************************)
(* The command lines and directories the model is run on                   *)
(***************************************************************************)

\* Largest number of entries of a directory.
MaxEntries == 3

UP == <<"u", "p">>
DOWN == <<"d", "o", "w", "n">>

\* The file name <ver>_<name>.<dir>.<ext>.
Canon(ver, name, dir, ext) ==
    ver \o <<"_">> \o name \o <<".">> \o dir \o <<".">> \o ext

File(name) == [name |-> name, kind |-> "file"]

\* os.ReadDir returns the entries sorted by file name.
RECURSIVE ReadDir(_)
ReadDir(S) ==
    IF S = {} THEN <<>>
    ELSE LET first == CHOOSE e \in S : \A f \in S \ {e} : StrLess(e.name, f.name)
         IN  <<first>> \o ReadDir(S \ {first})

\* No two entries of a directory share a name.
DistinctNames(S) == \A e \in S : \A f \in S : e.name = f.name => e = f

\* The entries the directories of Init are made of: migrations of versions
\* 1 (also written 01), 2, 4 and 10 that differ in name, direction and
\* extension, a numeric file that is no migration, a directory, a device
\* and symbolic links.
DirEntries ==
    { File(Canon(<<"1">>, <<"a">>, UP, <<"s">>)),
      File(Canon(<<"1">>, <<"b">>, UP, <<"s">>)),
      File(Canon(<<"0", "1">>, <<"a">>, UP, <<"s">>)),
      File(Canon(<<"1">>, <<"a">>, DOWN, <<"s">>)),
      File(Canon(<<"1">>, <<"b">>, DOWN, <<"s">>)),
      File(Canon(<<"1">>, <<"a">>, DOWN, <<"t">>)),
      File(Canon(<<"2">>, <<"a">>, UP, <<"s">>)),
      File(Canon(<<"2">>, <<"a">>, DOWN, <<"s">>)),
      File(Canon(<<"4">>, <<"a">>, UP, <<"s">>)),
      File(Canon(<<"1", "0">>, <<"a">>, DOWN, <<"s">>)),
      File(<<"1", "a", ".", "s">>),
      [name |-> Canon(<<"2">>, <<"b">>, UP, <<"s">>), kind |-> "link_file"],
      [name |-> Canon(<<"4">>, <<"a">>, DOWN, <<"s">>), kind |-> "link_broken"],
      [name |-> Canon(<<"4">>, <<"b">>, UP, <<"s">>), kind |-> "link_other"],
      [name |-> Canon(<<"2">>, <<"b">>, DOWN, <<"s">>), kind |-> "dir"],
      [name |-> Canon(<<"4">>, <<"b">>, DOWN, <<"s">>), kind |-> "special"] }

\* The directories of Init, as os.ReadDir lists them.
Listings ==
    {ReadDir(S) : S \in {T \in SUBSET DirEntries :
                            Cardinality(T) <= MaxEntries /\ DistinctNames(T)}}

\* The flags that act on single entries, as given in Init.
EntryFlags ==
    { [ext |-> <<>>,         enforceExt |-> FALSE, strictPattern |-> FALSE, digits |-> 0],
      [ext |-> <<>>,         enforceExt |-> FALSE, strictPattern |-> TRUE,  digits |-> 1],
      [ext |-> <<"s">>,      enforceExt |-> FALSE, strictPattern |-> FALSE, digits |-> 0],
      [ext |-> <<".", "s">>, enforceExt |-> TRUE,  strictPattern |-> TRUE,  digits |-> 2] }

\* Command lines with a valid configuration.
ValidArgs ==
    { [ path |-> <<"d">>, ext |-> f.ext, enforceExt |-> f.enforceExt,
        strictPattern |-> f.strictPattern, digits |-> f.digits,
        noGaps |-> g, requireDown |-> r, strictNameMatch |-> n ] :
      f \in EntryFlags, g \in BOOLEAN, r \in BOOLEAN, n \in BOOLEAN }

\* Command lines parseFlags rejects, one of them for two reasons.
InvalidArgs ==
    { [ path |-> p, ext |-> x, enforceExt |-> e, strictPattern |-> FALSE,
        digits |-> d, noGaps |-> FALSE, requireDown |-> FALSE,
        strictNameMatch |-> FALSE ] :
      p \in {<<>>, <<"d">>}, x \in {<<>>, <<".">>, <<"s">>}, e \in BOOLEAN,
      d \in {-1, 0} }
    \ ValidArgs

\* What cfg.Path can be when it is no directory that can be read.
BrokenPaths == {"missing", "stat_error", "not_a_dir", "unreadable"}

\* The state before main runs, but for the command line and the file system.
InitProcess ==
    /\ pc = "start"
    /\ cfg = ZeroConfig
    /\ entries = <<>>
    /\ idx = 0
    /\ lintErrors = <<>>
    /\ versions = <<>>
    /\ versionKeys = <<>>
    /\ vpos = 0
    /\ gpos = 1
    /\ err = "nil"
    /\ exitCode = -1
    /\ stdout = <<>>
    /\ stderr = <<>>
    /\ fsAccessed = FALSE

Init ==
    /\ InitProcess
    /\ \/ /\ args \in ValidArgs
          /\ fs \in {[state |-> "dir", listing |-> l] : l \in Listings}
       \/ /\ args \in ValidArgs \cup InvalidArgs
          /\ fs \in {[state |-> b, listing |-> <<>>] : b \in BrokenPaths \cup {"dir"}}

Spec == Init /\ [][Next]_vars

(***************************************************************************)
(* A second set of initial states, for the rules that act on one entry:    *)
(* the directory holds one file, whose name ranges over the shapes the     *)
(* three patterns tell apart, and at most one more migration.              *)
(***************************************************************************)

\* A version token no int64 can hold: 2^63.
TooBig ==
    <<"9", "2", "2", "3", "3", "7", "2", "0", "3", "6", "8", "5", "4", "7", "7",
      "5", "8", "0", "8">>

\* What a name starts with: nothing, a version token, a letter.
Heads == {<<>>, <<"1">>, <<"0", "1">>, <<"a">>}

\* The name part, with a direction token or a newline of its own.
Middles == {<<>>, <<"a">>, <<"a", ".", "u", "p", ".", "b">>, <<"a", NL>>}

\* The direction token.
Directions == {<<>>, <<".", "u", "p">>, <<".", "d", "o", "w", "n">>}

\* What follows the direction token.
Tails ==
    {<<>>, <<".">>, <<".", "s">>, <<".", "s", ".", "g">>, <<".", "u", "p">>,
     <<".", "s", NL>>}

\* The file names of the second set of initial states.
SampleNames ==
    ( { h \o u \o m \o d \o t :
          h \in Heads, u \in {<<>>, <<"_">>}, m \in Middles, d \in Directions,
          t \in Tails }
      \cup { Canon(TooBig, <<"a">>, UP, <<"s">>) } )
    \ { <<>>, <<".">> }

\* The migration that may stand beside the file.
Companion == File(Canon(<<"2">>, <<"a">>, UP, <<"s">>))

\* The command lines of the second set: every extension filter shape with
\* every combination of enforce-ext and strict-pattern.
SampleArgs ==
    { [ path |-> <<"d">>, ext |-> x, enforceExt |-> e, strictPattern |-> sp,
        digits |-> d, noGaps |-> g, requireDown |-> FALSE,
        strictNameMatch |-> FALSE ] :
      x \in {<<>>, <<"s">>, <<".", "s">>, <<"s", ".", "g">>, <<"u", "p">>},
      e \in BOOLEAN, sp \in BOOLEAN, d \in {0, 2}, g \in BOOLEAN }

InitSample ==
    /\ InitProcess
    /\ \E n \in SampleNames, beside \in BOOLEAN :
          /\ fs = [ state   |-> "dir",
                    listing |-> ReadDir({File(n)} \cup
                                        (IF beside THEN {Companion} ELSE {})) ]
          /\ args \in {a \in SampleArgs : a.noGaps = beside}

SpecSample == InitSample /\ [][Next]_vars

(***************************************************************************)
(* Vocabulary of the properties                                            *)
(***************************************************************************)

\* Lint has returned its list of violations (no fatal error).
LintReturned == pc \in {"returned", "exit"} /\ fsAccessed /\ err = "nil"

\* Formats of the violations that name a version.
VersionFormats ==
    {"duplicate up migrations", "duplicate down migrations",
     "missing down migration", "missing up migration", "name/ext mismatch"}

\* Formats of the gap violations.
GapFormats == {"missing version", "missing versions"}

\* Positions in the output of the violations of a format for a version.
Reports(format, version) ==
    {i \in 1..Len(lintErrors) :
        lintErrors[i][1] = format /\ lintErrors[i][2] = version}

\* Versions with a group, or named by a violation.
VersionsInPlay ==
    DOMAIN versions \cup
    {lintErrors[i][2] : i \in {j \in 1..Len(lintErrors) : lintErrors[j][1] \in VersionFormats}}

\* The up-records and the down-records grouped under a version.
UpRecords(v) == IF v \in DOMAIN versions THEN versions[v].Up ELSE <<>>
DownRecords(v) == IF v \in DOMAIN versions THEN versions[v].Down ELSE <<>>

\* The paths of the entries, in directory-listing order, whose file name is
\* that of one of the records.
RECURSIVE ListedPaths(_, _)
ListedPaths(listing, records) ==
    IF listing = <<>> THEN <<>>
    ELSE (IF \E i \in 1..Len(records) : records[i].FileName = listing[1].name
          THEN <<cfg.Path \o <<"/">> \o listing[1].name>>
          ELSE <<>>)
         \o ListedPaths(Tail(listing), records)

\* The paths separated by a comma and a space.
RECURSIVE CommaSeparated(_)
CommaSeparated(paths) ==
    IF Len(paths) = 0 THEN <<>>
    ELSE IF Len(paths) = 1 THEN paths[1]
    ELSE CommaSeparated(SubSeq(paths, 1, Len(paths) - 1))
         \o <<",", " ">> \o paths[Len(paths)]

\* Every record of the group of v has a version token whose value is v.
GroupedByValue(v, records) ==
    \A i \in 1..Len(records) :
        /\ DecimalValue(records[i].VersionStr) = v
        /\ records[i].VersionStr = SubSeq(records[i].FileName, 1, Len(records[i].VersionStr))
        /\ records[i].FileName[Len(records[i].VersionStr) + 1] = "_"

\* One direction of the duplicate rule for version v.
DuplicatesReportedOnce(format, v, records) ==
    /\ GroupedByValue(v, records)
    /\ Cardinality(Reports(format, v)) = (IF Len(records) >= 2 THEN 1 ELSE 0)
    /\ \A i \in Reports(format, v) :
          /\ Len(ListedPaths(entries, records)) = Len(records)
          /\ lintErrors[i][3] = CommaSeparated(ListedPaths(entries, records))

(***************************************************************************)
(* C1  Duplicate rule.  When Lint has returned, for every version (the     *)
(* integer value of the version token, so 1 and 01 are one version) the    *)
(* output holds exactly one "duplicate up migrations" violation if the     *)
(* version has two or more grouped up-records and none otherwise, and the  *)
(* violation lists the paths of all up-records of the version, joined by   *)
(* ", ", in directory-listing order.  The same holds for down-records.     *)
(***************************************************************************)
C1_DuplicateRule ==
    LintReturned =>
        \A v \in VersionsInPlay :
            /\ DuplicatesReportedOnce("duplicate up migrations", v, UpRecords(v))
            /\ DuplicatesReportedOnce("duplicate down migrations", v, DownRecords(v))

\* Reached: a version written both 1 and 01 has three up-records, reported
\* as duplicates, and some version has duplicate down-records.
C1_Witness ==
    /\ LintReturned
    /\ \E v \in DOMAIN versions :
          /\ Len(versions[v].Up) = 3
          /\ versions[v].Up[1].VersionStr # versions[v].Up[2].VersionStr
          /\ Reports("duplicate up migrations", v) # {}

(***************************************************************************)
(* C2  Pairing rule.  When Lint has returned with require-down enabled,    *)
(* a version with up-records and no down-record has exactly one "missing   *)
(* down migration" and no "missing up migration", and symmetrically; a     *)
(* version with both has neither; with require-down disabled there is no   *)
(* such violation at all.  The duplicates of the version play no part.     *)
(***************************************************************************)
C2_PairingRule ==
    LintReturned =>
        \A v \in VersionsInPlay :
            LET ups   == Len(UpRecords(v))
                downs == Len(DownRecords(v))
            IN  /\ Cardinality(Reports("missing down migration", v)) =
                      (IF cfg.RequireDown /\ ups > 0 /\ downs = 0 THEN 1 ELSE 0)
                /\ Cardinality(Reports("missing up migration", v)) =
                      (IF cfg.RequireDown /\ downs > 0 /\ ups = 0 THEN 1 ELSE 0)

\* Reached: one version is reported both for its duplicate down-records and
\* for its missing up migration.
C2_Witness ==
    /\ LintReturned
    /\ cfg.RequireDown
    /\ \E v \in DOMAIN versions :
          /\ Reports("duplicate down migrations", v) # {}
          /\ Reports("missing up migration", v) # {}
          /\ Reports("missing down migration", v) = {}

\* Neighbours in the ascending order of the grouped versions.
Neighbours ==
    {pair \in (DOMAIN versions) \X (DOMAIN versions) :
        /\ pair[1] < pair[2]
        /\ ~\E w \in DOMAIN versions : pair[1] < w /\ w < pair[2]}

\* Positions in the output of the gap violations.
GapReports == {i \in 1..Len(lintErrors) : lintErrors[i][1] \in GapFormats}

\* The gap violation naming the versions missing between prev and cur.
GapMessage(prev, cur) ==
    IF cur - 1 = prev + 1
    THEN <<"missing version", prev + 1, prev, cur>>
    ELSE <<"missing versions", prev + 1, cur - 1, prev, cur>>

(***************************************************************************)
(* C3  Gap rule.  When Lint has returned with no-gaps enabled, the output  *)
(* holds exactly one gap violation for each two neighbours prev < cur of   *)
(* the ascending distinct grouped versions with cur # prev + 1, naming     *)
(* prev+1..cur-1 ("missing version N" for one version, "missing versions   *)
(* N..M" for more), and no other gap violation; with no-gaps disabled, or  *)
(* fewer than two versions, it holds none.  The lowest version is free.    *)
(***************************************************************************)
C3_GapRule ==
    LintReturned =>
        LET gaps == {pair \in Neighbours : pair[2] # pair[1] + 1} IN
        IF ~cfg.NoGaps
        THEN GapReports = {}
        ELSE /\ Cardinality(GapReports) = Cardinality(gaps)
             /\ \A pair \in gaps :
                   \E i \in GapReports : lintErrors[i] = GapMessage(pair[1], pair[2])

\* Reached: the lowest version is not 1, and there are a gap of one version
\* and a gap of several.
C3_Witness ==
    /\ LintReturned
    /\ cfg.NoGaps
    /\ 1 \notin DOMAIN versions
    /\ \E i \in GapReports : lintErrors[i][1] = "missing version"
    /\ \E i \in GapReports : lintErrors[i][1] = "missing versions"

\* The configurations parseFlags has to reject: no -path, -enforce-ext with
\* an -ext that is empty once a leading dot is stripped, negative -digits.
InvalidConfiguration ==
    \/ args.path = <<>>
    \/ args.enforceExt /\ args.ext \in {<<>>, <<".">>}
    \/ args.digits < 0

(***************************************************************************)
(* C4  Process outcome.  An invalid configuration ends the process with    *)
(* status 2 before Lint is called, so before any file system access.       *)
(* Otherwise the process exits 0 with the success message if and only if   *)
(* Lint returns no fatal error and no violation, and exits 1 in every      *)
(* other case.                                                             *)
(***************************************************************************)
C4_ProcessOutcome ==
    /\ (InvalidConfiguration =>
          /\ pc \in {"start", "exit"}
          /\ ~fsAccessed
          /\ (pc = "exit" => (exitCode = 2 /\ stdout = <<>>)))
    /\ ((~InvalidConfiguration /\ pc = "exit") =>
          /\ fsAccessed
          /\ exitCode \in {0, 1}
          /\ (exitCode = 0 <=> (err = "nil" /\ lintErrors = <<>>))
          /\ (exitCode = 0 <=> stdout = <<<<"migration lint passed">>>>)
          /\ (exitCode = 1 <=> stdout = <<>>))

\* Reached: -enforce-ext with -ext "." and nothing else wrong ended with 2.
C4_Witness ==
    /\ pc = "exit"
    /\ exitCode = 2
    /\ args.enforceExt
    /\ args.ext = <<".">>
    /\ args.path # <<>>
    /\ args.digits >= 0

(***************************************************************************)
(* C10  Name/extension consistency rule.  When Lint has returned, the      *)
(* output holds a "name/ext mismatch" violation for version V if and only  *)
(* if strict-name-match is enabled, V has exactly one grouped up-record    *)
(* and exactly one grouped down-record, and their name parts or their ext  *)
(* parts differ (then exactly one).  A version with duplicate up-records   *)
(* or duplicate down-records has none, whatever the names.                 *)
(***************************************************************************)
C10_NameMatchRule ==
    LintReturned =>
        \A v \in VersionsInPlay :
            LET ups   == UpRecords(v)
                downs == DownRecords(v)
            IN  Cardinality(Reports("name/ext mismatch", v)) =
                   (IF /\ cfg.StrictNameMatch
                       /\ Len(ups) = 1
                       /\ Len(downs) = 1
                       /\ \/ ups[1].NamePart # downs[1].NamePart
                          \/ ups[1].ExtPart # downs[1].ExtPart
                    THEN 1 ELSE 0)

\* Reached: strict-name-match is on and a version has duplicate up-records
\* and a down-record whose name differs from the first of them.
C10_Witness ==
    /\ LintReturned
    /\ cfg.StrictNameMatch
    /\ \E v \in DOMAIN versions :
          /\ Len(versions[v].Up) = 2
          /\ Len(versions[v].Down) = 1
          /\ versions[v].Up[1].NamePart # versions[v].Down[1].NamePart
          /\ Reports("duplicate up migrations", v) # {}
          /\ Reports("name/ext mismatch", v) = {}

(***************************************************************************)
(* Vocabulary of the properties about single entries                       *)
(***************************************************************************)

\* The entries Lint looks at: regular files and links to regular files.
RegularEntries ==
    {entries[i] : i \in {j \in 1..Len(entries) : entries[j].kind \in {"file", "link_file"}}}

\* Formats of the violations that name the path of one entry.
EntryFormats ==
    {"failed to stat symlink", "extension mismatch", "unmatched file",
     "version parse error", "digits mismatch"}

\* Positions in the output of the violations of a format about a file.
EntryReports(format, name) ==
    {i \in 1..Len(lintErrors) :
        /\ lintErrors[i][1] = format
        /\ lintErrors[i][2] = cfg.Path \o <<"/">> \o name}

\* Positions in the output of all violations about a file.
AllEntryReports(name) ==
    UNION {EntryReports(format, name) : format \in EntryFormats}

\* All grouped records, and those made from a file.
AllRecords ==
    UNION { {versions[v].Up[i] : i \in 1..Len(versions[v].Up)} \cup
            {versions[v].Down[i] : i \in 1..Len(versions[v].Down)} :
            v \in DOMAIN versions }
RecordsOf(name) == {r \in AllRecords : r.FileName = name}

\* A plain file: its name starts with no digit, is not migration-like and
\* has no direction token.
Plain(name) ==
    /\ name[1] \notin Digit
    /\ ~migrationLikeRe(name)
    /\ migrationPrefixRe(name) = Nil

(***************************************************************************)
(* C5  Plain files are never candidates.  When Lint has returned, under    *)
(* every configuration, a regular file whose name starts with no digit, is *)
(* not migration-like and has no direction token has no violation.         *)
(* The code reports such a file as unmatched when strict-pattern is on and *)
(* its extension satisfies the configured extension filter.                *)
(***************************************************************************)
C5_PlainFilesNeverReported ==
    LintReturned =>
        \A e \in RegularEntries :
            Plain(e.name) => AllEntryReports(e.name) = {} /\ RecordsOf(e.name) = {}

(***************************************************************************)
(* C6  No duplicate reporting for one entry.  When Lint has returned, no   *)
(* non-canonical regular file has both an "extension mismatch" and an      *)
(* "unmatched file" violation; and when its extension mismatch is          *)
(* suppressed by strict-pattern (a filter is configured, enforcement is    *)
(* on, the extension fails the filter, and the file is migration-like or   *)
(* has a direction token) it has exactly one "unmatched file" violation    *)
(* and no other.                                                           *)
(***************************************************************************)
C6_ReportedOnce ==
    LintReturned =>
        \A e \in RegularEntries :
            LET k == Classify(e.name) IN
            k.matches = Nil =>
                /\ ~(/\ EntryReports("extension mismatch", e.name) # {}
                     /\ EntryReports("unmatched file", e.name) # {})
                /\ (/\ cfg.StrictPattern
                    /\ cfg.Ext # <<>>
                    /\ cfg.EnforceExt
                    /\ ~extMatches(cfg.Ext, k.finalExtForMatch, k.extPartOpt)
                    /\ (k.isMigrationLike \/ k.hasDirection))
                   => /\ Cardinality(EntryReports("unmatched file", e.name)) = 1
                      /\ Cardinality(AllEntryReports(e.name)) = 1

\* Reached: a file with a direction token and no extension, under a filter
\* with enforcement and strict-pattern, reported as unmatched only.
C6_Witness ==
    /\ LintReturned
    /\ cfg.StrictPattern /\ cfg.EnforceExt /\ cfg.Ext = <<"s">>
    /\ \E e \in RegularEntries :
          /\ e.name = <<"1", "_", "a", ".", "u", "p">>
          /\ EntryReports("unmatched file", e.name) # {}
          /\ EntryReports("extension mismatch", e.name) = {}

\* The canonical regular files.
CanonicalEntries == {e \in RegularEntries : migratePattern(e.name) # Nil}

\* The file's record was inserted into a version group.
Grouped(name) == RecordsOf(name) # {}

\* Line 201: the extension of a canonical file fails extMatches.
FailsFilter(name) ==
    LET k == Classify(name) IN
    cfg.Ext # <<>> /\ ~extMatches(cfg.Ext, k.finalExtForMatch, Group(k.matches, 4))

\* The version token of a canonical file is the decimal of some int64.
VersionFits(name) == ParseInt(Group(migratePattern(name), 1)).ok

(***************************************************************************)
(* C7 as claimed.  A canonical file (whose version token fits an int64)    *)
(* is left out of the version groups exactly when an extension filter is   *)
(* configured, its extension fails extMatches and enforcement is off; in   *)
(* every other case, enforcement on included, its record is grouped.       *)
(***************************************************************************)
C7_SkippedOnlyWithoutEnforcement ==
    LintReturned =>
        \A e \in CanonicalEntries :
            VersionFits(e.name) =>
                (~Grouped(e.name) <=> (FailsFilter(e.name) /\ ~cfg.EnforceExt))

(***************************************************************************)
(* C7 as amended.  When Lint has returned, a canonical file is left out    *)
(* of the version groups exactly when an extension filter is configured    *)
(* and its extension fails extMatches, whatever enforcement is, or when    *)
(* its version token fits no int64.  A file the filter excludes has no     *)
(* violation with enforcement off and exactly one, an extension mismatch,  *)
(* with enforcement on; a file that passes the filter and whose version    *)
(* token fits no int64 has a version parse error.                          *)
(***************************************************************************)
C7_FilterExcludes ==
    LintReturned =>
        \A e \in CanonicalEntries :
            /\ Grouped(e.name) <=> (~FailsFilter(e.name) /\ VersionFits(e.name))
            /\ Cardinality(RecordsOf(e.name)) <= 1
            /\ (FailsFilter(e.name) /\ ~cfg.EnforceExt) =>
                  AllEntryReports(e.name) = {}
            /\ (FailsFilter(e.name) /\ cfg.EnforceExt) =>
                  /\ Cardinality(EntryReports("extension mismatch", e.name)) = 1
                  /\ Cardinality(AllEntryReports(e.name)) = 1
            /\ (~FailsFilter(e.name) /\ ~VersionFits(e.name)) =>
                  Cardinality(EntryReports("version parse error", e.name)) = 1

\* Reached: under enforcement a canonical file whose extension fails the
\* filter is reported and left out of the groups.
C7_Witness ==
    /\ LintReturned
    /\ cfg.EnforceExt
    /\ \E e \in CanonicalEntries :
          /\ FailsFilter(e.name)
          /\ VersionFits(e.name)
          /\ EntryReports("extension mismatch", e.name) # {}
          /\ ~Grouped(e.name)

\* The text after the last "." of a name ("" when it holds none).
RECURSIVE AfterLastDot(_)
AfterLastDot(name) ==
    IF ~ContainsDot(name) THEN <<>>
    ELSE IF ContainsDot(Tail(name)) THEN AfterLastDot(Tail(name))
    ELSE Tail(SubSeq(name, CHOOSE i \in 1..Len(name) : name[i] = ".", Len(name)))

\* What the duality promises: no filter, or a dotted filter equal to the
\* ext part of the canonical match, or a plain one equal to the text after
\* the last "." of the file name.
SatisfiesFilter(name) ==
    \/ cfg.Ext = <<>>
    \/ ContainsDot(cfg.Ext) /\ Group(migratePattern(name), 4) = cfg.Ext
    \/ ~ContainsDot(cfg.Ext) /\ AfterLastDot(name) = cfg.Ext

(***************************************************************************)
(* C8  Extension matching duality.  When Lint has returned, a canonical    *)
(* file (whose version token fits an int64) is grouped and has no          *)
(* extension mismatch if and only if no filter is configured, or the       *)
(* filter holds no "." and equals the text after the last "." of the file  *)
(* name, or the filter holds a "." and equals the ext part of the          *)
(* canonical match; otherwise it is not grouped, and reported as an        *)
(* extension mismatch under enforcement.                                   *)
(* The code fails this for a canonical name that ends in ".up" or ".down": *)
(* migrationPrefixRe takes that ending for a bare direction token and the  *)
(* final extension is forced to "".                                        *)
(***************************************************************************)
C8_ExtensionDuality ==
    LintReturned =>
        \A e \in CanonicalEntries :
            VersionFits(e.name) =>
                IF SatisfiesFilter(e.name)
                THEN /\ Grouped(e.name)
                     /\ EntryReports("extension mismatch", e.name) = {}
                ELSE /\ ~Grouped(e.name)
                     /\ cfg.EnforceExt => EntryReports("extension mismatch", e.name) # {}

\* The leading digits of a name: its longest prefix made of digits.
LeadingDigits(name) ==
    LET runs == {n \in 0..Len(name) : \A i \in 1..n : name[i] \in Digit}
    IN  SubSeq(name, 1, CHOOSE n \in runs : \A m \in runs : m <= n)

\* The ways to read a name as digits "_" name "." (up|down) "." ext with a
\* non-empty name and a non-empty ext: the positions of the "." before the
\* direction.
Readings(name) ==
    LET n == Len(LeadingDigits(name)) IN
    {p \in 1..Len(name) :
        /\ n >= 1
        /\ n < Len(name)
        /\ name[n + 1] = "_"
        /\ p > n + 2
        /\ \/ /\ p + 4 <= Len(name)
              /\ SubSeq(name, p, p + 3) = <<".", "u", "p", ".">>
           \/ /\ p + 6 <= Len(name)
              /\ SubSeq(name, p, p + 5) = <<".", "d", "o", "w", "n", ".">>}

\* The fields of the record when the direction token is read at p.
ReadAt(name, p) ==
    LET n  == Len(LeadingDigits(name))
        up == SubSeq(name, p, p + 3) = <<".", "u", "p", ".">>
    IN  [ VersionStr |-> LeadingDigits(name),
          Version    |-> DecimalValue(LeadingDigits(name)),
          NamePart   |-> SubSeq(name, n + 2, p - 1),
          Direction  |-> IF up THEN <<"u", "p">> ELSE <<"d", "o", "w", "n">>,
          ExtPart    |-> SubSeq(name, p + (IF up THEN 4 ELSE 6), Len(name)) ]

\* The fields of a grouped record that classification fills from the name.
Fields(r) ==
    [ VersionStr |-> r.VersionStr, Version |-> r.Version,
      NamePart |-> r.NamePart, Direction |-> r.Direction, ExtPart |-> r.ExtPart ]

\* The first and the last reading of a name.
FirstReading(name) == CHOOSE p \in Readings(name) : \A q \in Readings(name) : p <= q
LastReading(name) == CHOOSE p \in Readings(name) : \A q \in Readings(name) : q <= p

\* Files whose name has a reading, holds no newline, and whose version
\* token fits an int64, in a run with no extension filter.
ReadableEntries ==
    {e \in RegularEntries :
        /\ cfg.Ext = <<>>
        /\ Readings(e.name) # {}
        /\ NoNewline(e.name)
        /\ ParseInt(LeadingDigits(e.name)).ok}

(***************************************************************************)
(* C9 as claimed.  A file whose name reads as digits "_" name "." (up or   *)
(* down) "." ext, name and ext not empty, is grouped as one record whose   *)
(* version string is the digits as written, whose version is their value,  *)
(* and whose name part is the shortest possible: the direction is the      *)
(* first direction token after the underscore and the ext part is all      *)
(* that follows it.  (Stated for names that hold no newline and whose      *)
(* version fits an int64.)                                                 *)
(***************************************************************************)
C9_ShortestName ==
    LintReturned =>
        \A e \in ReadableEntries :
            {Fields(r) : r \in RecordsOf(e.name)} = {ReadAt(e.name, FirstReading(e.name))}

(***************************************************************************)
(* C9 as amended.  When Lint has returned: every record grouped from a     *)
(* file has the digits of the name as written (leading zeros kept) as its  *)
(* version string, their value as its version, "up" or "down" as its       *)
(* direction, and the LONGEST possible name part: the direction is the     *)
(* last direction token that a "." and a non-empty ext follow, and the ext *)
(* part is all that follows it.  With no extension filter, a file whose    *)
(* name has such a reading, holds no newline and whose digits fit an int64 *)
(* is grouped as exactly one record.  A name with no such reading (empty   *)
(* name, empty ext part) or that holds a newline yields no record.         *)
(***************************************************************************)
C9_LongestName ==
    LintReturned =>
        \A e \in RegularEntries :
            /\ \A r \in RecordsOf(e.name) :
                  /\ Readings(e.name) # {}
                  /\ Fields(r) = ReadAt(e.name, LastReading(e.name))
                  /\ r.Direction \in {<<"u", "p">>, <<"d", "o", "w", "n">>}
            /\ e \in ReadableEntries => Cardinality(RecordsOf(e.name)) = 1
            /\ (Readings(e.name) = {} \/ ~NoNewline(e.name)) => RecordsOf(e.name) = {}

\* Reached: a name with two direction tokens is grouped with the first of
\* them inside its name part, and its zero-padded version token kept.
C9_Witness ==
    /\ LintReturned
    /\ \E r \in AllRecords :
          /\ r.FileName = <<"0", "1", "_", "a", ".", "u", "p", ".", "b", ".",
                            "d", "o", "w", "n", ".", "s">>
          /\ r.VersionStr = <<"0", "1">>
          /\ r.Version = 1
          /\ r.NamePart = <<"a", ".", "u", "p", ".", "b">>
          /\ r.Direction = <<"d", "o", "w", "n">>
          /\ r.ExtPart = <<"s">>

(***************************************************************************)
(* Vocabulary of the ordering claim                                        *)
(***************************************************************************)

\* The stage of Lint a violation of the output comes from: 1 the loop over
\* the entries, 2 the loop over the versions, 3 the gap loop.
Stage(i) ==
    IF lintErrors[i][1] \in EntryFormats THEN 1
    ELSE IF lintErrors[i][1] \in VersionFormats THEN 2
    ELSE IF lintErrors[i][1] \in GapFormats THEN 3
    ELSE 0

\* Places in the listing of the entry a per-entry violation is about.
ListedAt(i) ==
    {n \in 1..Len(entries) : cfg.Path \o <<"/">> \o entries[n].name = lintErrors[i][2]}

\* Rank of a per-version violation within its version.
RuleRank(i) ==
    CASE lintErrors[i][1] = "duplicate up migrations"   -> 1
      [] lintErrors[i][1] = "duplicate down migrations" -> 2
      [] lintErrors[i][1] = "missing down migration"    -> 3
      [] lintErrors[i][1] = "missing up migration"      -> 3
      [] lintErrors[i][1] = "name/ext mismatch"         -> 4
      [] OTHER                                          -> 0

\* The lower neighbour of the pair of versions a gap violation is about.
GapAfter(i) ==
    IF lintErrors[i][1] = "missing version" THEN lintErrors[i][3]
    ELSE lintErrors[i][4]

\* Violation i is not out of place before violation j.
InOrder(i, j) ==
    /\ Stage(i) \in 1..3
    /\ Stage(j) \in 1..3
    /\ Stage(i) <= Stage(j)
    /\ (Stage(i) = 1 /\ Stage(j) = 1) =>
          \E m \in ListedAt(i) : \E n \in ListedAt(j) : m <= n
    /\ (Stage(i) = 2 /\ Stage(j) = 2) =>
          \/ lintErrors[i][2] < lintErrors[j][2]
          \/ lintErrors[i][2] = lintErrors[j][2] /\ RuleRank(i) < RuleRank(j)
    /\ (Stage(i) = 3 /\ Stage(j) = 3) => GapAfter(i) < GapAfter(j)

====
